---- MODULE Spec2Model ----
(***************************************************************************)
(* Model of the UnipdSkin driver (src/UnipdSkin.h, src/UnipdSkin.cpp):     *)
(* one UnipdSkin object, its three public operations init(),               *)
(* useRawData(bool) and updated(), and the I2C transactions they issue.    *)
(* The bus (Wire) is the environment: it supplies a completion status for  *)
(* every transaction and the bytes of every burst read.                    *)
(***************************************************************************)
EXTENDS Integers, Sequences, FiniteSets

VARIABLES isInit, rawData, grid, cells, allocs, TX_lines, RX_lines,
          call, ret, bus, writes, dOut, modeCmd

vars == <<isInit, rawData, grid, cells, allocs, TX_lines, RX_lines,
          call, ret, bus, writes, dOut, modeCmd>>

(* ---------------- program constants (UnipdSkin.h) ---------------------- *)
MODE_NORMAL == 0
MODE_TEST == 64
NUM_RX == 12
NUM_TX == 21
num_TX == NUM_TX
num_RX == NUM_RX
ByteMod == 256
\* unsigned int is 16 bits wide on the AVR targets of the library
UIntBits == 16
UIntMod == 2 ^ UIntBits
\* an unsigned int whose value is indeterminate (never written by the driver)
Undef == 0 - 1

(* ---------------- bounds of the model ---------------------------------- *)
\* the first MaxOff lines and the last line of a mask may be disabled
MaxOff == 1
\* the device frames the bus can deliver are numbered 0..MaxSeed
MaxSeed == 1
\* transaction statuses 0..MaxStatus (0 = success, as Wire.endTransmission)
MaxStatus == 2

Statuses == 0 .. MaxStatus
Seeds == 0 .. MaxSeed
Bytes == 0 .. (ByteMod - 1)
ShortLens == {0, 3}
JunkBytes == {0, 255}
NoShort == 0 - 1

GridCells == 0 .. (num_TX * num_RX - 1)

(* ---------------- the environment: device and bus ---------------------- *)
\* byte the device sends at offset o of a burst read while TX-select holds p
DeviceByte(seed, p, o) ==
  IF o % 2 = 0 THEN (11 * p + seed + 1) % ByteMod
               ELSE (19 * (o \div 2) + 5 * seed + 2) % ByteMod

\* inputs of one scan: the frame `seed`; the bus answers `st` from
\* transaction `at` on; burst read `shortRow` hands over `shortLen` bytes;
\* `junk` is the indeterminate content of the local buffer of line 67, which
\* only a short first read leaves visible
FailAts == {0, 2}
ShortRows == {0, 1}
FullReads ==
  [seed : Seeds, st : {0}, at : {0},
   shortRow : {NoShort}, shortLen : {0}, junk : {0}]
FaultyReads ==
  [seed : {0}, st : 1 .. MaxStatus, at : FailAts,
   shortRow : {NoShort}, shortLen : {0}, junk : {0}]
ShortReads ==
  {x \in [seed : {0}, st : {0}, at : {0},
          shortRow : ShortRows, shortLen : ShortLens, junk : JunkBytes] :
     x.shortRow = 0 \/ x.junk = 0}
ScanInputs == FullReads \cup FaultyReads \cup ShortReads

\* status the bus reports for the n-th transaction of a scan
StatusAt(inp, n) == IF n >= inp.at THEN inp.st ELSE 0

\* number of bytes Wire.available()/read() hand over for burst read `row`
Delivered(inp, row) == IF row = inp.shortRow THEN inp.shortLen ELSE 2 * NUM_RX

(* ---------------- pure helpers of the scan ----------------------------- *)
\* x | y on two bytes, bit by bit
RECURSIVE ByteOr(_, _)
ByteOr(x, y) ==
  IF x = 0 THEN y
  ELSE IF y = 0 THEN x
  ELSE (IF x % 2 = 1 \/ y % 2 = 1 THEN 1 ELSE 0) + 2 * ByteOr(x \div 2, y \div 2)

\* a | b on non-negative integers, byte by byte
RECURSIVE BitOr(_, _)
BitOr(a, b) ==
  IF a = 0 THEN b
  ELSE IF b = 0 THEN a
  ELSE ByteOr(a % ByteMod, b % ByteMod)
         + ByteMod * BitOr(a \div ByteMod, b \div ByteMod)

\* (buffer[2*rxAddr] << 8) | buffer[2*rxAddr + 1], stored in an unsigned int
Combine_swapped(hi, lo) == BitOr(lo * 256, hi) % UIntMod
Combine(hi, lo) == BitOr(hi * 256, lo) % UIntMod

\* value written to the TX-select register for logical line txAddr
TxSelect_plain(txAddr) == txAddr % ByteMod
TxSelect(txAddr) == (NUM_TX - 1 - txAddr) % ByteMod

\* flat index of grid[(gridTxAddr * num_RX) + gridRxAddr]
GridIndex_norow(gridTxAddr, gridRxAddr) == gridRxAddr
GridIndex_physical(gridTxAddr, gridRxAddr) == gridRxAddr * num_TX + gridTxAddr
GridIndex(gridTxAddr, gridRxAddr) == (gridTxAddr * num_RX) + gridRxAddr

(* ---------------- register transport adapter --------------------------- *)
\* setRegister: one write transaction; the status is the bus's answer
setRegister(b, reg, val, st) ==
  Append(b, [op |-> "w", reg |-> reg, val |-> val % ByteMod, st |-> st])

\* getRegisters: address write, request of `size` bytes, drain of `got` bytes
getRegisters_nodrain(b, reg, size, buffer, st, got, seed, p) ==
  [bus |-> Append(b, [op |-> "r", reg |-> reg, val |-> size, st |-> st]),
   buffer |-> buffer]
getRegisters_zerofill(b, reg, size, buffer, st, got, seed, p) ==
  [bus |-> Append(b, [op |-> "r", reg |-> reg, val |-> size, st |-> st]),
   buffer |-> [o \in DOMAIN buffer |->
                 IF o < got /\ o < size THEN DeviceByte(seed, p, o) ELSE 0]]
getRegisters(b, reg, size, buffer, st, got, seed, p) ==
  [bus |-> Append(b, [op |-> "r", reg |-> reg, val |-> size, st |-> st]),
   buffer |-> [o \in DOMAIN buffer |->
                 IF o < got /\ o < size THEN DeviceByte(seed, p, o)
                 ELSE buffer[o]]]

(* ---------------- getRawData ------------------------------------------- *)
\* number of bytes the burst read of line 80 asks for
BurstSize_active == 2 * Cardinality({x \in DOMAIN RX_lines : RX_lines[x]})
BurstSize == 2 * NUM_RX

\* inner loop (lines 83-89): s = [rxAddr, gridRxAddr, cells, writes]
RECURSIVE rxLoop(_, _, _, _)
rxLoop(s, buffer, txAddr, gridTxAddr) ==
  IF s.rxAddr >= NUM_RX THEN s
  ELSE IF RX_lines[s.rxAddr]
  THEN LET idx == GridIndex(gridTxAddr, s.gridRxAddr)
           v == Combine(buffer[2 * s.rxAddr], buffer[2 * s.rxAddr + 1])
       IN  rxLoop([rxAddr |-> s.rxAddr + 1,
                   gridRxAddr |-> (s.gridRxAddr + 1) % ByteMod,
                   cells |-> IF idx \in GridCells
                             THEN [s.cells EXCEPT ![idx] = v] ELSE s.cells,
                   writes |-> Append(s.writes,
                                [idx |-> idx, i |-> gridTxAddr,
                                 j |-> s.gridRxAddr, t |-> txAddr,
                                 r |-> s.rxAddr, val |-> v])],
                  buffer, txAddr, gridTxAddr)
  ELSE rxLoop([s EXCEPT !.rxAddr = s.rxAddr + 1], buffer, txAddr, gridTxAddr)

\* outer loop (lines 72-92):
\* s = [txAddr, gridTxAddr, cells, writes, bus, buffer]
RECURSIVE txLoop(_, _)
txLoop(s, inp) ==
  IF s.txAddr >= NUM_TX THEN s
  ELSE IF TX_lines[s.txAddr]
  THEN LET b1 == setRegister(s.bus, 1, TxSelect(s.txAddr),
                             StatusAt(inp, Len(s.bus)))
           rd == getRegisters(b1, 16, BurstSize, s.buffer,
                              StatusAt(inp, Len(b1)),
                              Delivered(inp, s.gridTxAddr),
                              inp.seed, TxSelect(s.txAddr))
           row == rxLoop([rxAddr |-> 0, gridRxAddr |-> 0,
                          cells |-> s.cells, writes |-> s.writes],
                         rd.buffer, s.txAddr, s.gridTxAddr)
       IN  txLoop([txAddr |-> s.txAddr + 1,
                   gridTxAddr |-> (s.gridTxAddr + 1) % ByteMod,
                   cells |-> row.cells, writes |-> row.writes,
                   bus |-> rd.bus, buffer |-> rd.buffer],
                  inp)
  ELSE txLoop([s EXCEPT !.txAddr = s.txAddr + 1], inp)

\* getRawData (lines 63-93): the 0xC0 write, then the row loop
getRawData_abort(inp) ==
  IF StatusAt(inp, 0) # 0
  THEN [cells |-> cells, writes |-> <<>>,
        bus |-> setRegister(<<>>, 0, 192, StatusAt(inp, 0))]
  ELSE txLoop([txAddr |-> 0, gridTxAddr |-> 0,
               cells |-> cells, writes |-> <<>>,
               bus |-> setRegister(<<>>, 0, 192, StatusAt(inp, 0)),
               buffer |-> [o \in 0 .. (2 * NUM_RX - 1) |-> inp.junk]],
              inp)
getRawData(inp) ==
  txLoop([txAddr |-> 0, gridTxAddr |-> 0,
          cells |-> cells, writes |-> <<>>,
          bus |-> setRegister(<<>>, 0, 192, StatusAt(inp, 0)),
          buffer |-> [o \in 0 .. (2 * NUM_RX - 1) |-> inp.junk]],
         inp)

(* ---------------- public operations ------------------------------------ *)
\* init(): the test of line 22 on the status of the mode-register write
InitOk_any(st) == TRUE
InitOk(st) == st = 0

\* init() (lines 11-33)
init(st1, st2) ==
  /\ call' = [op |-> "init", st1 |-> st1, st2 |-> st2]
  /\ IF InitOk(st1)
     THEN /\ isInit' = TRUE
          /\ bus' = setRegister(setRegister(<<>>, 0, MODE_NORMAL, st1),
                                167, 4, st2)
          /\ ret' = 0
     ELSE /\ isInit' = isInit
          /\ bus' = setRegister(<<>>, 0, MODE_NORMAL, st1)
          /\ ret' = 1
  /\ writes' = <<>>
  /\ UNCHANGED <<rawData, grid, cells, allocs, TX_lines, RX_lines, dOut>>

\* useRawData: the allocation test of line 41
NeedAlloc_always(g) == TRUE
NeedAlloc(g) == g = "null"

\* useRawData: the test of line 45 that guards the MODE_TEST write
SendTest_always(useRaw) == useRaw
SendTest(useRaw) == isInit /\ useRaw

\* useRawData(useRaw) (lines 36-49)
useRawData(useRaw, st) ==
  /\ call' = [op |-> "useRawData", useRaw |-> useRaw, st |-> st]
  /\ rawData' = useRaw
  /\ IF NeedAlloc(grid)
     THEN /\ grid' = "heap"
          /\ cells' = [c \in GridCells |-> Undef]
          /\ allocs' = allocs + 1
     ELSE UNCHANGED <<grid, cells, allocs>>
  /\ bus' = IF SendTest(useRaw)
            THEN setRegister(<<>>, 0, MODE_TEST, st) ELSE <<>>
  /\ ret' = 0
  /\ writes' = <<>>
  /\ UNCHANGED <<isInit, TX_lines, RX_lines, dOut>>

\* updated(): control reaches the getRawData() call of line 56
scanDue_raw == rawData
scanDue == isInit /\ rawData

\* updated(): the value returned by lines 53, 57 and 59
updatedRet_raw == IF rawData THEN 1 ELSE 0
updatedRet == IF ~isInit THEN 0 ELSE IF rawData THEN 1 ELSE 0

\* updated() (lines 52-60)
updated(inp) ==
  /\ call' = [op |-> "updated", inp |-> inp]
  /\ IF scanDue
     THEN LET s == getRawData(inp)
          IN  /\ cells' = s.cells
              /\ bus' = s.bus
              /\ writes' = s.writes
     ELSE /\ cells' = cells
          /\ bus' = <<>>
          /\ writes' = <<>>
  /\ ret' = updatedRet
  /\ UNCHANGED <<isInit, rawData, grid, allocs, TX_lines, RX_lines, dOut>>

(* ---------------- specifications --------------------------------------- *)
AllActive(n) == [x \in 0 .. (n - 1) |-> TRUE]

\* masks of n lines in which only the first MaxOff lines and the last line
\* may be disabled
Masks(n) ==
  {[x \in 0 .. (n - 1) |-> x \notin off] :
     off \in SUBSET {x \in 0 .. (n - 1) : x < MaxOff \/ x = n - 1}}

\* the state after UnipdSkin::UnipdSkin(): grid has no initialiser, so the
\* pointer is null (static storage) or indeterminate (automatic storage).
\* cells is the memory grid[0 .. num_TX*num_RX-1] designates; a store through
\* an indeterminate pointer lands there or stops the program inside the call.
InitCommon ==
  /\ isInit = FALSE
  /\ rawData = FALSE
  /\ grid \in {"null", "wild"}
  /\ cells = [c \in GridCells |-> Undef]
  /\ allocs = 0
  /\ call = [op |-> "none"]
  /\ ret = 0
  /\ bus = <<>>
  /\ writes = <<>>
  /\ dOut = [op |-> "none"]
  /\ modeCmd = "none"

\* the driver as shipped: every line active (UnipdSkin.h lines 61-62)
Init ==
  /\ InitCommon
  /\ TX_lines = AllActive(NUM_TX)
  /\ RX_lines = AllActive(NUM_RX)

\* modeCmd, the history of the mode commands, is kept by SpecModes only
Next ==
  \/ \E st1 \in Statuses, st2 \in Statuses :
       init(st1, st2) /\ UNCHANGED modeCmd
  \/ \E useRaw \in BOOLEAN, st \in Statuses :
       useRawData(useRaw, st) /\ UNCHANGED modeCmd
  \/ \E inp \in ScanInputs : updated(inp) /\ UNCHANGED modeCmd

Spec == Init /\ [][Next]_vars

\* the driver built with other initialisers of TX_lines / RX_lines;
InitMasks ==
  /\ InitCommon
  /\ TX_lines \in Masks(NUM_TX)
  /\ RX_lines \in Masks(NUM_RX)

\* every burst read delivers all its bytes and only the mode-register write
\* of init() may fail
NextMasks ==
  \/ \E st1 \in Statuses : init(st1, 0) /\ UNCHANGED modeCmd
  \/ \E useRaw \in BOOLEAN : useRawData(useRaw, 0) /\ UNCHANGED modeCmd
  \/ \E inp \in FullReads : updated(inp) /\ UNCHANGED modeCmd

SpecMasks == InitMasks /\ [][NextMasks]_vars

\* the sample reconstruction of line 86 on every byte pair: one row of the
\* scan, run on a burst buffer that holds (hi, lo) at the pair of RX line r
DecodeRows == {0, NUM_RX - 1}

InitDecode ==
  /\ isInit = TRUE
  /\ rawData = TRUE
  /\ grid = "heap"
  /\ cells = [c \in GridCells |-> Undef]
  /\ allocs = 1
  /\ call = [op |-> "none"]
  /\ ret = 0
  /\ bus = <<>>
  /\ writes = <<>>
  /\ TX_lines = AllActive(NUM_TX)
  /\ RX_lines = AllActive(NUM_RX)
  /\ dOut \in [op : {"in"}, r : DecodeRows, hi : Bytes, lo : Bytes,
               val : {Undef}]
  /\ modeCmd = "TEST"

DecodeRow ==
  /\ dOut.op = "in"
  /\ LET buffer == [o \in 0 .. (2 * NUM_RX - 1) |->
                      IF o = 2 * dOut.r THEN dOut.hi
                      ELSE IF o = 2 * dOut.r + 1 THEN dOut.lo ELSE 0]
         row == rxLoop([rxAddr |-> 0, gridRxAddr |-> 0,
                        cells |-> cells, writes |-> <<>>],
                       buffer, 0, 0)
     IN  /\ cells' = row.cells
         /\ writes' = row.writes
         /\ dOut' = [dOut EXCEPT !.op = "out",
                                 !.val = row.cells[row.writes[dOut.r + 1].idx]]
  /\ UNCHANGED <<isInit, rawData, grid, allocs, TX_lines, RX_lines,
                 call, ret, bus, modeCmd>>

NextDecode == DecodeRow

SpecDecode == InitDecode /\ [][NextDecode]_vars

\* line masks together with bus faults during the scan: init() succeeds,
\* every burst read is full, the scan's transactions may fail
NextFaults ==
  \/ init(0, 0) /\ UNCHANGED modeCmd
  \/ \E useRaw \in BOOLEAN : useRawData(useRaw, 0) /\ UNCHANGED modeCmd
  \/ \E inp \in FaultyReads : updated(inp) /\ UNCHANGED modeCmd

SpecFaults == InitMasks /\ [][NextFaults]_vars

\* the last command the calls so far sent to the mode register 0x00 with
\* value MODE_TEST or MODE_NORMAL, read off the transactions b of a call
RECURSIVE ModeAfter(_, _)
ModeAfter(m, b) ==
  IF b = <<>> THEN m
  ELSE LET e == Head(b)
       IN  ModeAfter(IF e.op = "w" /\ e.reg = 0 /\ e.val = MODE_TEST THEN "TEST"
                     ELSE IF e.op = "w" /\ e.reg = 0 /\ e.val = MODE_NORMAL
                          THEN "NORMAL"
                     ELSE m,
                     Tail(b))

\* the driver as shipped, with the history of its mode commands
NextModes ==
  \/ \E st1 \in Statuses, st2 \in Statuses :
       init(st1, st2) /\ modeCmd' = ModeAfter(modeCmd, bus')
  \/ \E useRaw \in BOOLEAN, st \in Statuses :
       useRawData(useRaw, st) /\ modeCmd' = ModeAfter(modeCmd, bus')
  \/ \E inp \in FullReads :
       updated(inp) /\ modeCmd' = ModeAfter(modeCmd, bus')

SpecModes == Init /\ [][NextModes]_vars

(* ---------------- vocabulary of the properties -------------------------- *)
countActive(mask) == Cardinality({x \in DOMAIN mask : mask[x]})

\* the true entries of a mask in ascending order: ActiveSeq(mask)[i + 1] is
\* the i-th true entry
ActiveSeq(mask) ==
  [k \in 1 .. countActive(mask) |->
     CHOOSE x \in DOMAIN mask :
       mask[x] /\ Cardinality({y \in DOMAIN mask : y < x /\ mask[y]}) = k - 1]

\* the TX-select writes (register 0x01) of the last call, in order
SelectWrites == SelectSeq(bus, LAMBDA e : e.op = "w" /\ e.reg = 1)

\* the flat indices written by the last call
WrittenCells == {writes[k].idx : k \in 1 .. Len(writes)}

\* the last call was updated() and it returned true after a scan
Scanned == call.op = "updated" /\ ret = 1

(* ---------------- C1 ---------------------------------------------------- *)
\* C1: an updated() call returns true if and only if isInit and rawData are
\* both true at the moment of the call; so it returns false while no init()
\* has succeeded, whatever rawData is, and false while rawData is false.
C1_PollResult ==
  [][call'.op = "updated" => (ret' = 1 <=> (isInit /\ rawData))]_vars

C1_Witness ==
  /\ call.op = "updated"
  /\ ret = 0
  /\ rawData
  /\ ~isInit

(* ---------------- C2 ---------------------------------------------------- *)
\* C2: every init() call whose mode-register write (0x00 <- MODE_NORMAL)
\* gets a non-zero status returns failure (1) and isInit is false when it
\* returns, also when an earlier init() had succeeded.
C2_Claim ==
  (call.op = "init" /\ call.st1 # 0) => (ret = 1 /\ ~isInit)

(* ---------------- C3 ---------------------------------------------------- *)
\* C3: for every pair of line masks, after a scan whose burst reads all
\* deliver 2*NUM_RX bytes, countActive(TX)*countActive(RX) distinct cells are
\* written, and the sample of compacted position (i, j) is the one decoded
\* from the burst read made while the i-th active TX line was selected, at
\* the byte pair of the j-th active RX line.
C3_ScanMapping ==
  (Scanned /\ call.inp.shortRow = NoShort) =>
    LET txs == ActiveSeq(TX_lines)
        rxs == ActiveSeq(RX_lines)
        nt == Len(txs)
        nr == Len(rxs)
    IN  /\ Len(writes) = nt * nr
        /\ Cardinality(WrittenCells) = nt * nr
        /\ Len(bus) = 1 + 2 * nt
        /\ \A i \in 0 .. (nt - 1) :
             LET sel == bus[2 + 2 * i]
                 rd == bus[3 + 2 * i]
             IN  /\ sel.op = "w" /\ sel.reg = 1
                 /\ sel.val = NUM_TX - 1 - txs[i + 1]
                 /\ rd.op = "r" /\ rd.reg = 16
                 /\ \A j \in 0 .. (nr - 1) :
                      LET w == writes[i * nr + j + 1]
                          r == rxs[j + 1]
                      IN  /\ w.i = i /\ w.j = j
                          /\ w.t = txs[i + 1] /\ w.r = r
                          /\ w.val = 256 * DeviceByte(call.inp.seed, sel.val, 2 * r)
                                       + DeviceByte(call.inp.seed, sel.val, 2 * r + 1)
                          /\ cells[w.idx] = w.val

C3_Witness ==
  /\ Scanned
  /\ call.inp.shortRow = NoShort
  /\ ~TX_lines[0]
  /\ ~RX_lines[0]
  /\ Len(writes) = (NUM_TX - 1) * (NUM_RX - 1)

C5_Claim ==
  [][/\ call'.op = "useRawData" => (allocs' = 1 /\ grid' = "heap")
     /\ allocs' # allocs =>
          /\ call'.op = "useRawData"
          /\ allocs = 0
          /\ Cardinality(DOMAIN cells') = NUM_TX * NUM_RX]_vars

(* ---------------- C6 ---------------------------------------------------- *)
\* C6: whenever updated() returns true, every one of the NUM_TX*NUM_RX cells
\* of the grid was written during that call: each cell holds a sample stored
\* by this scan, none a value of an earlier scan or of the allocation.
C6_FullRewrite ==
  Scanned =>
    /\ WrittenCells = GridCells
    /\ \A c \in GridCells :
         /\ cells[c] # Undef
         /\ \E k \in 1 .. Len(writes) :
              writes[k].idx = c /\ writes[k].val = cells[c]

C6_Witness ==
  /\ Scanned
  /\ grid = "heap"
  /\ call.inp.seed = MaxSeed
  /\ Len(writes) = NUM_TX * NUM_RX

(* ---------------- C7 ---------------------------------------------------- *)
\* C7: in a scan the value written to the TX-select register 0x01 for an
\* active logical line t is NUM_TX - 1 - t (20 for t = 0, 0 for t = 20), one
\* write per active line in ascending order of t, and none for a disabled
\* line; no other call writes the TX-select register.
C7_TxSelect ==
  LET txs == ActiveSeq(TX_lines)
      sel == SelectWrites
  IN  IF Scanned
      THEN /\ Len(sel) = Len(txs)
           /\ \A k \in 1 .. Len(txs) : sel[k].val = NUM_TX - 1 - txs[k]
           /\ TX_lines[0] => sel[1].val = 20
           /\ TX_lines[20] => sel[Len(sel)].val = 0
           /\ \A t \in 0 .. (NUM_TX - 1) :
                ~TX_lines[t] =>
                  \A k \in 1 .. Len(sel) : sel[k].val # NUM_TX - 1 - t
      ELSE Len(sel) = 0

C7_Witness ==
  /\ Scanned
  /\ ~TX_lines[0]
  /\ TX_lines[20]
  /\ Len(SelectWrites) = NUM_TX - 1
  /\ SelectWrites[1].val = 19

(* ---------------- C8 ---------------------------------------------------- *)
\* C8: for an RX line r and any bytes (h, l) at offsets 2r and 2r+1 of the
\* burst buffer, the sample stored for line r is h*256 + l, a value in
\* 0..65535 (0x12, 0x34 give 0x1234).
C8_Decode ==
  dOut.op = "out" =>
    /\ dOut.val = dOut.hi * 256 + dOut.lo
    /\ dOut.val \in 0 .. 65535
    /\ writes[dOut.r + 1].r = dOut.r
    /\ writes[dOut.r + 1].val = dOut.val
    /\ ((dOut.hi = 18 /\ dOut.lo = 52) => dOut.val = 4660)

C8_Witness ==
  /\ dOut.op = "out"
  /\ dOut.hi = 18
  /\ dOut.lo = 52
  /\ dOut.r = NUM_RX - 1
  /\ dOut.val = 4660

(* ---------------- C9 ---------------------------------------------------- *)
\* C9: init() returns 0 exactly when the mode-register write gets status 0
\* and 1 for every other status; on success isInit is true on return; the
\* status of the auto-calibration write (0xA7 <- 0x04) changes neither.
C9_InitResult ==
  call.op = "init" =>
    /\ ret = (IF call.st1 = 0 THEN 0 ELSE 1)
    /\ call.st1 = 0 => isInit
    /\ call.st1 = 0 =>
         /\ Len(bus) = 2
         /\ bus[2] = [op |-> "w", reg |-> 167, val |-> 4, st |-> call.st2]
    /\ call.st1 # 0 => Len(bus) = 1
    /\ bus[1] = [op |-> "w", reg |-> 0, val |-> MODE_NORMAL, st |-> call.st1]

C9_Witness ==
  /\ call.op = "init"
  /\ call.st1 = 0
  /\ call.st2 # 0
  /\ ret = 0
  /\ isInit

(* ---------------- C10 --------------------------------------------------- *)
\* C10: an updated() call that returns false issues no bus transaction and
\* leaves isInit, rawData, the grid pointer, the allocation and every grid
\* cell as they were.
C10_FalseIsNoOp ==
  [][(call'.op = "updated" /\ ret' = 0) =>
       /\ bus' = <<>>
       /\ writes' = <<>>
       /\ UNCHANGED <<isInit, rawData, grid, cells, allocs>>]_vars

C10_Witness ==
  /\ call.op = "updated"
  /\ ret = 0
  /\ isInit
  /\ ~rawData
  /\ cells[0] # Undef
  /\ bus = <<>>

(* ---------------- C11 --------------------------------------------------- *)
\* C11: useRawData(useRaw) always sets rawData to useRaw and issues a bus
\* write, exactly one, mode register 0x00 <- MODE_TEST (0x40), if and only if
\* isInit and useRaw are both true; useRawData(false) issues no transaction in
\* any state and changes neither isInit nor the grid contents.
C11_RawModeEffect ==
  [][call'.op = "useRawData" =>
       /\ rawData' = call'.useRaw
       /\ bus' = IF isInit /\ call'.useRaw
                 THEN <<[op |-> "w", reg |-> 0, val |-> 64, st |-> call'.st]>>
                 ELSE <<>>
       /\ ~call'.useRaw => (bus' = <<>> /\ UNCHANGED <<isInit, cells>>)]_vars

C11_Witness ==
  /\ call.op = "useRawData"
  /\ ~call.useRaw
  /\ ~rawData
  /\ isInit
  /\ cells[0] # Undef
  /\ bus = <<>>

(* ---------------- C12 --------------------------------------------------- *)
\* C12: isInit and rawData are both false at construction; isInit becomes
\* true only in an init() call whose mode-register write got status 0; no
\* operation but init() changes isInit and none but useRawData changes
\* rawData.
C12_Lifecycle ==
  /\ ~isInit /\ ~rawData
  /\ [][/\ isInit' # isInit =>
             (call'.op = "init" /\ call'.st1 = 0 /\ bus'[1].st = 0 /\ isInit')
        /\ rawData' # rawData => call'.op = "useRawData"]_vars

C12_Witness ==
  /\ call.op = "updated"
  /\ isInit
  /\ rawData
  /\ ret = 1

(* ---------------- C13 --------------------------------------------------- *)
\* C13: the transactions of one scan are, in order, one write 0x00 <- 0xC0,
\* then for every active TX line in ascending order one write to the
\* TX-select register 0x01 followed at once by one burst read of 2*NUM_RX
\* (24) bytes from register 0x10; the burst length does not depend on the RX
\* mask and no 0xC0 write occurs between the rows.
C13_ScanProtocol ==
  Scanned =>
    LET txs == ActiveSeq(TX_lines)
    IN  /\ Len(bus) = 1 + 2 * Len(txs)
        /\ bus[1].op = "w" /\ bus[1].reg = 0 /\ bus[1].val = 192
        /\ \A i \in 1 .. Len(txs) :
             /\ bus[2 * i].op = "w"
             /\ bus[2 * i].reg = 1
             /\ bus[2 * i].val = NUM_TX - 1 - txs[i]
             /\ bus[2 * i + 1].op = "r"
             /\ bus[2 * i + 1].reg = 16
             /\ bus[2 * i + 1].val = 24
             /\ bus[2 * i + 1].val = 2 * NUM_RX
        /\ \A k \in 2 .. Len(bus) : bus[k].reg # 0

C13_Witness ==
  /\ Scanned
  /\ ~RX_lines[0]
  /\ ~RX_lines[NUM_RX - 1]
  /\ ~TX_lines[NUM_TX - 1]
  /\ Len(bus) = 1 + 2 * (NUM_TX - 1)
  /\ bus[3].val = 24

(* ---------------- C14 --------------------------------------------------- *)
\* C14: transport failures during a scan are swallowed and never retried:
\* whatever statuses the bus reports, updated() returns true, the scan issues
\* 1 + 2*countActive(TX) transactions (the 0xC0 write, then a select write
\* and a burst read per active TX line), and isInit and rawData keep their
\* values.
C14_FaultsSwallowed ==
  [][(call'.op = "updated" /\ isInit /\ rawData) =>
       /\ ret' = 1
       /\ Len(bus') = 1 + 2 * countActive(TX_lines)
       /\ bus'[1].op = "w" /\ bus'[1].reg = 0
       /\ \A k \in 1 .. Len(bus') :
            /\ bus'[k].st = StatusAt(call'.inp, k - 1)
            /\ k > 1 => (bus'[k].op = (IF k % 2 = 0 THEN "w" ELSE "r"))
            /\ k > 1 => (bus'[k].reg = (IF k % 2 = 0 THEN 1 ELSE 16))
       /\ \A k \in 1 .. (Len(bus') - 2) :
            bus'[k].op = "w" /\ bus'[k].reg = 1 => bus'[k + 2].val # bus'[k].val
       /\ UNCHANGED <<isInit, rawData>>]_vars

C14_Witness ==
  /\ Scanned
  /\ call.inp.st # 0
  /\ call.inp.at = 0
  /\ bus[1].st # 0
  /\ bus[Len(bus)].st # 0
  /\ ~TX_lines[0]
  /\ Len(bus) = 1 + 2 * (NUM_TX - 1)
  /\ isInit
  /\ rawData

(* ---------------- C15 --------------------------------------------------- *)
\* byte the buffer holds at offset o when row i of a scan with one short
\* burst read is stored: a byte of this read below the delivered length,
\* else the byte the previous read left there, else the buffer's junk
C15_BufferByte(inp, i, o) ==
  IF o < Delivered(inp, i) THEN DeviceByte(inp.seed, NUM_TX - 1 - i, o)
  ELSE IF i = 0 THEN inp.junk
  ELSE DeviceByte(inp.seed, NUM_TX - i, o)

\* C15: when a burst read delivers only k < 2*NUM_RX bytes, getRegisters
\* stores them at offsets 0..k-1 and leaves offsets k..2*NUM_RX-1 as they
\* were; the scan goes on and still stores every active RX cell of the row,
\* so the bytes at or beyond offset k that enter its samples are those the
\* previous row's read left (indeterminate ones on the first row).
C15_ShortRead ==
  (Scanned /\ call.inp.shortRow # NoShort) =>
    /\ Len(writes) = NUM_TX * NUM_RX
    /\ \A k \in 1 .. Len(writes) :
         LET w == writes[k]
         IN  /\ w.i = (k - 1) \div NUM_RX
             /\ w.r = (k - 1) % NUM_RX
             /\ w.val = 256 * C15_BufferByte(call.inp, w.i, 2 * w.r)
                          + C15_BufferByte(call.inp, w.i, 2 * w.r + 1)
             /\ cells[w.idx] = w.val

C15_Witness ==
  /\ Scanned
  /\ call.inp.shortRow = 1
  /\ call.inp.shortLen = 3
  /\ cells[NUM_RX + 5] = cells[5]
  /\ cells[NUM_RX] # cells[0]
  /\ cells[2 * NUM_RX + 5] # cells[5]

(* ---------------- C16 --------------------------------------------------- *)
\* C16: init() on an already initialised driver repeats the whole sequence,
\* the write 0x00 <- MODE_NORMAL and, only if its status was 0, the write
\* 0xA7 <- 0x04, as the first call does with the same statuses, and it
\* leaves isInit, rawData, the grid allocation and the grid contents as they
\* were.
C16_ReInit ==
  [][call'.op = "init" =>
       /\ bus' = IF call'.st1 = 0
                 THEN <<[op |-> "w", reg |-> 0, val |-> 0, st |-> call'.st1],
                        [op |-> "w", reg |-> 167, val |-> 4, st |-> call'.st2]>>
                 ELSE <<[op |-> "w", reg |-> 0, val |-> 0, st |-> call'.st1]>>
       /\ isInit => UNCHANGED <<isInit, rawData, grid, allocs, cells>>]_vars

C16_Witness ==
  /\ call.op = "init"
  /\ call.st1 # 0
  /\ isInit
  /\ rawData
  /\ cells[0] # Undef
  /\ Len(bus) = 1

(* ---------------- C17 --------------------------------------------------- *)
\* C17: in every reachable state rawData true implies that the grid buffer
\* has been allocated, so every scan stores into an allocated buffer.
C17_Claim ==
  /\ rawData => (grid = "heap" /\ allocs = 1)
  /\ Scanned => grid = "heap"

(* ---------------- C18 --------------------------------------------------- *)
\* C18: for every pair of line masks every index stored to in a scan,
\* gridTxAddr*NUM_RX + gridRxAddr, lies in 0 .. NUM_TX*NUM_RX-1, with
\* gridTxAddr <= NUM_TX-1 and gridRxAddr <= NUM_RX-1 at each store, and no
\* index is stored to twice in one scan.
C18_IndexInRange ==
  Scanned =>
    /\ \A k \in 1 .. Len(writes) :
         /\ writes[k].idx = writes[k].i * NUM_RX + writes[k].j
         /\ writes[k].idx \in 0 .. (NUM_TX * NUM_RX - 1)
         /\ writes[k].i \in 0 .. (NUM_TX - 1)
         /\ writes[k].j \in 0 .. (NUM_RX - 1)
    /\ Cardinality(WrittenCells) = Len(writes)

C18_Witness ==
  /\ Scanned
  /\ ~TX_lines[0]
  /\ RX_lines = AllActive(NUM_RX)
  /\ Len(writes) = (NUM_TX - 1) * NUM_RX
  /\ writes[Len(writes)].idx = (NUM_TX - 1) * NUM_RX - 1

(* ---------------- C19 --------------------------------------------------- *)
\* C19: whatever the order of the calls, every scan made by updated() comes
\* after a write 0x00 <- MODE_TEST that no write 0x00 <- MODE_NORMAL has
\* followed: the driver never scans a controller it last commanded into
\* normal mode or never commanded into test mode.
C19_Claim ==
  [][(call'.op = "updated" /\ ret' = 1) => modeCmd = "TEST"]_vars

====
